---- MODULE Spec2Model ----
(***************************************************************************)
(* Conway's Game of Life, repository enocom/life.                          *)
(*                                                                         *)
(* The repository holds two variants of the program:                      *)
(*   - package life (src/life.go): a flat row-major []Cell with a          *)
(*     Dimension, stepped by Next and rendered by Generation.String,       *)
(*     driven by Game.Start (src/cmd/life/main.go);                        *)
(*   - the earlier package main (src/generation.go): a [][]string grid     *)
(*     stepped in place by Generation.Reproduce.                           *)
(* A behaviour of the model runs one of them, chosen by prog.              *)
(***************************************************************************)
EXTENDS Integers, Sequences, FiniteSets, TLC

\* ------------------------------------------------------------------ bounds
\* largest width / height of a grid
MaxDim == 3
\* largest number of cells of a grid
MaxCells == 9
\* dimensions range over -NegDim .. MaxDim
NegDim == 2
\* longest sequence handed to WithCells
MaxSeed == 3
\* number of ticks of the driver loop that are followed
MaxTicks == 3

VARIABLES
    prog,            \* the program that runs: "life" (package life called as its
                     \* tests call it), "game" (Game.Start), "main" (package main)
    pc,              \* position of the main goroutine
    g1,              \* life: the *Generation the caller holds (currentGen in Game.Start)
    g2,              \* life: the *Generation returned by Next
    i,               \* Next: number of cells of g1Cells already visited
    g2Cells,         \* Next: the local slice the new cells are appended to
    snap,            \* the input generation as it was when the step was called
    op,              \* the call that returned last
    ret,             \* what it returned
    game,            \* Game: [dimension, rate]
    ui,              \* what the UI received, in order
    ticks,           \* ticks received by Game.Start; in main, generations reproduced
    first,           \* the generation Game.Start created
    gen,             \* main: the *Generation [cells, height, width]
    nextGeneration,  \* Reproduce: the local grid being filled
    rIndex,          \* Reproduce: row being visited
    cIndex,          \* Reproduce: column being visited
    listener         \* the interrupt goroutine: "none" (not started), "waiting"
                     \* on <-c, "received" (the signal came), "exited" (os.Exit)

vars == <<prog, pc, g1, g2, i, g2Cells, snap, op, ret, game, ui, ticks, first,
          gen, nextGeneration, rIndex, cIndex, listener>>

lifeVars == <<g1, g2, i, g2Cells>>
gameVars == <<game, ui, ticks, first>>
mainVars == <<gen, nextGeneration, rIndex, cIndex>>

None == "none"

\* A nil pointer.
Nil == [nil |-> TRUE]

\* ------------------------------------------------------------- Go integers
Abs(a) == IF a < 0 THEN -a ELSE a

\* Go's % truncates toward zero: the result has the sign of the dividend.
GoMod(a, b) == IF a < 0 THEN -(Abs(a) % Abs(b)) ELSE a % Abs(b)

\* --------------------------------------------------------------- life.go
NewLiveCell == TRUE

NewDeadCell == FALSE

Alive(c) == c

CellString(c) == IF Alive(c) THEN "o" ELSE " "

LeftEdge(d, idx) == GoMod(idx, d.X) = 0

RightEdge(d, idx) == IF idx = 0 THEN FALSE ELSE GoMod(idx, d.X) = d.X - 1

LastRowFirstIndex(d) == (d.Y * d.X) - d.X

\* The number of living cells among the indexes a helper examines.
LiveAt(cells, idxs) ==
    Cardinality({k \in 1..Len(idxs) : Alive(cells[idxs[k] + 1])})

\* Each helper in two parts: the indexes of cells it examines (its guards),
\* and the count of living cells among them.
leftCellIdxWraps(idx, x) == <<idx - 1>>

leftCellIdx(idx, x) == IF GoMod(idx, x) = 0 THEN <<>> ELSE <<idx - 1>>

leftCell(idx, cells, x) == LiveAt(cells, leftCellIdx(idx, x))

rightCellIdx(idx, x) == IF GoMod(idx, x) = x - 1 THEN <<>> ELSE <<idx + 1>>

rightCell(idx, cells, x) == LiveAt(cells, rightCellIdx(idx, x))

aboveCellIdx(idx, d) == IF idx < d.X THEN <<>> ELSE <<idx - d.X>>

aboveCell(idx, cells, d) == LiveAt(cells, aboveCellIdx(idx, d))

belowCellIdx(idx, d) ==
    IF idx >= LastRowFirstIndex(d) THEN <<>> ELSE <<idx + d.X>>

belowCell(idx, cells, d) == LiveAt(cells, belowCellIdx(idx, d))

aboveDiagonalCellsIdx(idx, d) ==
    IF idx < d.X THEN <<>>
    ELSE (IF ~LeftEdge(d, idx) THEN <<idx - d.X - 1>> ELSE <<>>)
         \o (IF ~RightEdge(d, idx) THEN <<idx - d.X + 1>> ELSE <<>>)

aboveDiagonalCells(idx, cells, d) == LiveAt(cells, aboveDiagonalCellsIdx(idx, d))

belowDiagonalCellsIdx(idx, d) ==
    LET lastRowStartIdx == (d.Y * d.X) - d.X
    IN  IF idx >= lastRowStartIdx THEN <<>>
        ELSE (IF ~LeftEdge(d, idx) THEN <<idx + d.X - 1>> ELSE <<>>)
             \o (IF ~RightEdge(d, idx) THEN <<idx + d.X + 1>> ELSE <<>>)

belowDiagonalCells(idx, cells, d) == LiveAt(cells, belowDiagonalCellsIdx(idx, d))

\* Every index generate reads from cells for the cell at idx, in order.
neighborIdx(idx, d) ==
    leftCellIdx(idx, d.X) \o rightCellIdx(idx, d.X) \o aboveCellIdx(idx, d)
    \o belowCellIdx(idx, d) \o aboveDiagonalCellsIdx(idx, d)
    \o belowDiagonalCellsIdx(idx, d)

\* An index outside the slice makes the Go runtime panic.
IndexPanics(idx, d, n) ==
    \E k \in 1..Len(neighborIdx(idx, d)) : neighborIdx(idx, d)[k] \notin 0..(n - 1)

liveNeighbors(idx, cells, d) ==
    leftCell(idx, cells, d.X) + rightCell(idx, cells, d.X)
    + aboveCell(idx, cells, d) + belowCell(idx, cells, d)
    + aboveDiagonalCells(idx, cells, d) + belowDiagonalCells(idx, cells, d)

generateSurviveOnTwoOnly(idx, c, cells, d) ==
    LET n == liveNeighbors(idx, cells, d)
    IN  IF ~Alive(c) /\ n = 3 THEN NewLiveCell
        ELSE IF ~Alive(c) THEN NewDeadCell
        ELSE IF n = 2 THEN NewLiveCell ELSE NewDeadCell

generate(idx, c, cells, d) ==
    LET n == liveNeighbors(idx, cells, d)
    IN  IF ~Alive(c) /\ n = 3 THEN NewLiveCell
        ELSE IF ~Alive(c) THEN NewDeadCell
        ELSE CASE n \in {0, 1} -> NewDeadCell
               [] n \in {2, 3} -> NewLiveCell
               [] OTHER -> NewDeadCell

\* fixedCellGenerator.Generate: the cell returned and the generator afterwards.
fixedGenerateDropsLast(g) ==
    IF g.nextIdx >= Len(g.cells) - 1
    THEN [cell |-> NewDeadCell, generator |-> g]
    ELSE [cell |-> g.cells[g.nextIdx + 1],
          generator |-> [g EXCEPT !.nextIdx = @ + 1]]

fixedGenerate(g) ==
    IF g.nextIdx > Len(g.cells) - 1
    THEN [cell |-> NewDeadCell, generator |-> g]
    ELSE [cell |-> g.cells[g.nextIdx + 1],
          generator |-> [g EXCEPT !.nextIdx = @ + 1]]

NewFixedCellGenerator(c) == [kind |-> "fixed", nextIdx |-> 0, cells |-> c]

\* randomCellGenerator holds only its random source.
NewRandomCellGenerator == [kind |-> "random", nextIdx |-> 0, cells |-> <<>>]

\* The loop of NewGeneration over a fixed generator: n calls of Generate.
RECURSIVE fixedFill(_, _)
fixedFill(g, n) ==
    IF n <= 0 THEN [cells |-> <<>>, generator |-> g]
    ELSE LET r == fixedGenerate(g)
             t == fixedFill(r.generator, n - 1)
         IN  [cells |-> <<r.cell>> \o t.cells, generator |-> t.generator]

\* The generations NewGeneration can return for dimension d and generator gr.
NewGenerationResults(d, gr) ==
    LET n == IF d.X * d.Y > 0 THEN d.X * d.Y ELSE 0
    IN  IF gr.kind = "fixed"
        THEN {[dimensions |-> d, generator |-> fixedFill(gr, n).generator,
               cells |-> fixedFill(gr, n).cells]}
        ELSE {[dimensions |-> d, generator |-> gr, cells |-> cs] :
                 cs \in [1..n -> BOOLEAN]}

DefaultDimension == [X |-> 3, Y |-> 3]

separatorAfterFirstColumn(d, column) ==
    IF GoMod(column, d.X) = 0 THEN "\n" ELSE " "

\* Generation.String: what follows a cell's glyph.
separator(d, column) ==
    IF GoMod(column, d.X) = d.X - 1 THEN "\n" ELSE " "

\* Generation.String: the inner loop, from column on.
RECURSIVE columnsFrom(_, _, _)
columnsFrom(g, row, column) ==
    IF column < g.dimensions.X
    THEN <<CellString(g.cells[column + row * g.dimensions.X + 1]),
           separator(g.dimensions, column)>>
         \o columnsFrom(g, row, column + 1)
    ELSE <<>>

\* Generation.String: the outer loop, from row on.
RECURSIVE rowsFrom(_, _)
rowsFrom(g, row) ==
    IF row < g.dimensions.Y
    THEN columnsFrom(g, row, 0) \o rowsFrom(g, row + 1)
    ELSE <<>>

\* The display is a string, modelled as the sequence of its characters.
GenerationString(g) == rowsFrom(g, 0)

\* One iteration of Next's loop over g1Cells: what it leaves in the slice it
\* reads and in the slice it builds.
loopBodyInPlace(idx, g1Cells, g2Cells_, d) ==
    LET nextCell == generate(idx, g1Cells[idx + 1], g1Cells, d)
    IN  [g1Cells |-> [g1Cells EXCEPT ![idx + 1] = nextCell],
         g2Cells |-> Append(g2Cells_, nextCell)]

loopBody(idx, g1Cells, g2Cells_, d) ==
    LET nextCell == generate(idx, g1Cells[idx + 1], g1Cells, d)
    IN  [g1Cells |-> g1Cells, g2Cells |-> Append(g2Cells_, nextCell)]


\* UI.ClearScreen() and UI.Write(frame), as the UI receives them.
ClearScreen == [call |-> "ClearScreen"]

Write(frame) == [call |-> "Write", frame |-> frame]

\* ---------------------------------------------------------- generation.go
alive == "o"

dead == " "

\* findNeighbors: the positions <<row, col>> whose cell it examines, in order.
findNeighborsPos(rowIndex, colIndex, g) ==
    (IF rowIndex # 0 THEN <<<<rowIndex - 1, colIndex>>>> ELSE <<>>)
    \o (IF rowIndex # g.height - 1 THEN <<<<rowIndex + 1, colIndex>>>> ELSE <<>>)
    \o (IF colIndex # 0 THEN <<<<rowIndex, colIndex - 1>>>> ELSE <<>>)
    \o (IF colIndex # g.width - 1 THEN <<<<rowIndex, colIndex + 1>>>> ELSE <<>>)
    \o (IF rowIndex # 0 /\ colIndex # 0
        THEN <<<<rowIndex - 1, colIndex - 1>>>> ELSE <<>>)
    \o (IF rowIndex # 0 /\ colIndex # g.width - 1
        THEN <<<<rowIndex - 1, colIndex + 1>>>> ELSE <<>>)
    \o (IF rowIndex # g.height - 1 /\ colIndex # 0
        THEN <<<<rowIndex + 1, colIndex - 1>>>> ELSE <<>>)
    \o (IF rowIndex # g.height - 1 /\ colIndex # g.width - 1
        THEN <<<<rowIndex + 1, colIndex + 1>>>> ELSE <<>>)

\* findNeighbors appends the examined cells that are alive.
findNeighbors(rowIndex, colIndex, cells, g) ==
    LET pos == findNeighborsPos(rowIndex, colIndex, g)
        val == [k \in 1..Len(pos) |-> cells[pos[k][1] + 1][pos[k][2] + 1]]
    IN  SelectSeq(val, LAMBDA v : v = alive)

willSurvive(cell, neighbors) ==
    LET livingNeighbors == Len(neighbors)
    IN  IF cell = alive /\ livingNeighbors < 2 THEN FALSE
        ELSE IF cell = alive /\ (livingNeighbors = 2 \/ livingNeighbors = 3) THEN TRUE
        ELSE IF cell = alive /\ livingNeighbors > 3 THEN FALSE
        ELSE IF cell = dead /\ livingNeighbors = 3 THEN TRUE
        ELSE FALSE

\* One iteration of Reproduce's inner loop: what it leaves in the grid it
\* reads and in the grid it builds (row is the row of nextGeneration made
\* when the outer loop reached rIndex).
reproduceBody(r, c, cells, next, g) ==
    LET neighbors == findNeighbors(r, c, cells, g)
        v == IF willSurvive(cells[r + 1][c + 1], neighbors) THEN alive ELSE dead
    IN  [cells |-> cells, nextGeneration |-> [next EXCEPT ![r + 1][c + 1] = v]]

\* ------------------------------------------------------------- inputs
Dims == {d \in [X : (-NegDim)..MaxDim, Y : (-NegDim)..MaxDim] :
            d.X * d.Y <= MaxCells}

Seeds == UNION {[1..n -> BOOLEAN] : n \in 0..MaxSeed}

\* ------------------------------------------------- package life, as called
\* NewGeneration(opts...): dimOpt is the argument of WithDimension, or Nil
\* when the option is absent; cellsOpt names the cell option given, if any,
\* and c is the argument of WithCells.
NewGeneration(dimOpt, cellsOpt, c) ==
    /\ prog = "life" /\ pc = "idle" /\ g1 = Nil
    /\ LET d == IF dimOpt = Nil THEN DefaultDimension ELSE dimOpt
           gr == IF cellsOpt = "WithCells" THEN NewFixedCellGenerator(c)
                 ELSE NewRandomCellGenerator
       IN  g1' \in NewGenerationResults(d, gr)
    /\ op' = "NewGeneration" /\ ret' = None
    /\ UNCHANGED <<prog, listener, pc, g2, i, g2Cells, snap, gameVars, mainVars>>

\* CellGenerator.Generate on the generator the generation keeps.
Generate ==
    /\ prog = "life" /\ pc = "idle" /\ g1 # Nil
    /\ \/ /\ g1.generator.kind = "fixed"
          /\ ret' = fixedGenerate(g1.generator).cell
          /\ g1' = [g1 EXCEPT !.generator = fixedGenerate(g1.generator).generator]
       \/ /\ g1.generator.kind = "random"
          /\ ret' \in {NewDeadCell, NewLiveCell}
          /\ g1' = g1
    /\ op' = "Generate"
    /\ UNCHANGED <<prog, listener, pc, g2, i, g2Cells, snap, gameVars, mainVars>>

\* g1.String()
String ==
    /\ prog = "life" /\ pc = "idle" /\ g1 # Nil
    /\ op' = "String" /\ ret' = GenerationString(g1)
    /\ UNCHANGED <<prog, listener, pc, lifeVars, snap, gameVars, mainVars>>

\* Next(g1) is entered: g1Cells := g1.cells, g2Cells is nil.
NextCall ==
    /\ prog = "life" /\ pc = "idle" /\ g1 # Nil /\ g2 = Nil
    /\ pc' = "Next" /\ i' = 0 /\ g2Cells' = <<>> /\ snap' = g1
    /\ op' = None /\ ret' = None
    /\ UNCHANGED <<prog, listener, g1, g2, gameVars, mainVars>>

\* One iteration of the loop in Next; an index out of range panics.
NextStep ==
    /\ pc = "Next" /\ i < Len(g1.cells)
    /\ listener # "exited"
    /\ IF IndexPanics(i, g1.dimensions, Len(g1.cells))
       THEN /\ pc' = "panic"
            /\ UNCHANGED <<g1, i, g2Cells>>
       ELSE LET r == loopBody(i, g1.cells, g2Cells, g1.dimensions)
            IN  /\ g1' = [g1 EXCEPT !.cells = r.g1Cells]
                /\ g2Cells' = r.g2Cells
                /\ i' = i + 1
                /\ pc' = pc
    /\ UNCHANGED <<prog, listener, g2, snap, op, ret, gameVars, mainVars>>

\* Next returns &Generation{dimensions: g1.dimensions, cells: g2Cells}.
NextReturn ==
    /\ prog = "life" /\ pc = "Next" /\ i = Len(g1.cells)
    /\ g2' = [dimensions |-> g1.dimensions, generator |-> Nil, cells |-> g2Cells]
    /\ pc' = "idle" /\ op' = "Next" /\ ret' = None
    /\ UNCHANGED <<prog, listener, g1, i, g2Cells, snap, gameVars, mainVars>>


\* ------------------------------------------------------------ Game.Start
Sizes == {s \in (-NegDim)..MaxDim : s * s <= MaxCells}

\* NewGame(WithBoardSize(size), WithGenerationRate(rate))
Games == {[dimension |-> [X |-> s, Y |-> s], rate |-> r] : s \in Sizes, r \in {0, 1}}

\* Start, up to its loop: the first generation is made, the screen cleared,
\* the generation written.
GameStart ==
    /\ prog = "game" /\ pc = "Start"
    /\ listener # "exited"
    /\ g1' \in NewGenerationResults(game.dimension, NewRandomCellGenerator)
    /\ first' = g1'
    /\ ui' = ui \o <<ClearScreen, Write(GenerationString(g1'))>>
    /\ pc' = "tick"
    /\ UNCHANGED <<prog, listener, g2, i, g2Cells, snap, op, ret, game, ticks, mainVars>>

\* The channel of time.Tick(rate) delivers a tick (never, when rate <= 0:
\* the channel is nil) and the loop body calls Next(currentGen).
GameTick ==
    /\ prog = "game" /\ pc = "tick"
    /\ listener # "exited"
    /\ game.rate > 0 /\ ticks < MaxTicks
    /\ ticks' = ticks + 1
    /\ pc' = "Next" /\ i' = 0 /\ g2Cells' = <<>> /\ snap' = g1
    /\ UNCHANGED <<prog, listener, g1, g2, op, ret, game, ui, first, mainVars>>

\* Next returns into currentGen; the screen is cleared and the frame written.
GameNextReturn ==
    /\ prog = "game" /\ pc = "Next" /\ i = Len(g1.cells)
    /\ listener # "exited"
    /\ g1' = [dimensions |-> g1.dimensions, generator |-> Nil, cells |-> g2Cells]
    /\ ui' = ui \o <<ClearScreen, Write(GenerationString(g1'))>>
    /\ pc' = "tick"
    /\ UNCHANGED <<prog, listener, g2, i, g2Cells, snap, op, ret, game, ticks, first, mainVars>>

\* ------------------------------------------------- package main (earlier)
\* generation := &Generation{height: h, width: w}; generation.Awaken().
\* make panics on a negative length. main then registers for os.Interrupt
\* and starts the goroutine that waits for it.
Awaken(h, w) ==
    /\ prog = "main" /\ pc = "idle" /\ gen = Nil
    /\ IF h < 0 \/ (h > 0 /\ w < 0)
       THEN /\ pc' = "panic"
            /\ gen' = gen
            /\ listener' = listener
       ELSE /\ gen' \in {[cells |-> cs, height |-> h, width |-> w] :
                            cs \in [1..h -> [1..w -> {dead, alive}]]}
            /\ pc' = pc
            /\ listener' = "waiting"
    /\ op' = "Awaken" /\ ret' = None
    /\ UNCHANGED <<prog, lifeVars, snap, gameVars, nextGeneration, rIndex, cIndex>>

\* willSurvive called on its own, as TestWillSurvive calls it.
WillSurvive(cell, neighbors) ==
    /\ prog = "main" /\ pc = "idle" /\ gen = Nil
    /\ op' = "willSurvive"
    /\ ret' = [cell |-> cell, neighbors |-> neighbors,
               ok |-> willSurvive(cell, neighbors)]
    /\ UNCHANGED <<prog, listener, pc, lifeVars, snap, gameVars, mainVars>>

\* Reproduce is entered: nextGeneration := make([][]string, g.height).
ReproduceCall ==
    /\ prog = "main" /\ pc = "idle" /\ gen # Nil /\ ticks < MaxTicks
    /\ listener # "exited"
    /\ pc' = "Reproduce" /\ rIndex' = 0 /\ cIndex' = 0
    /\ nextGeneration' = [r \in 1..gen.height |-> <<>>]
    /\ snap' = gen
    /\ op' = None /\ ret' = None
    /\ UNCHANGED <<prog, listener, lifeVars, gameVars, gen>>

\* One step of the loops of Reproduce: a row of nextGeneration is made when
\* the outer loop reaches it, then one cell of the row is decided, or the
\* row is left.
ReproduceStep ==
    /\ pc = "Reproduce" /\ rIndex < Len(gen.cells)
    /\ listener # "exited"
    /\ LET made == IF cIndex = 0
                   THEN [nextGeneration EXCEPT ![rIndex + 1] = [c \in 1..gen.width |-> ""]]
                   ELSE nextGeneration
       IN  IF cIndex < Len(gen.cells[rIndex + 1])
           THEN LET b == reproduceBody(rIndex, cIndex, gen.cells, made, gen)
                IN  /\ gen' = [gen EXCEPT !.cells = b.cells]
                    /\ nextGeneration' = b.nextGeneration
                    /\ cIndex' = cIndex + 1
                    /\ rIndex' = rIndex
           ELSE /\ nextGeneration' = made
                /\ rIndex' = rIndex + 1
                /\ cIndex' = 0
                /\ gen' = gen
    /\ UNCHANGED <<prog, listener, pc, lifeVars, snap, op, ret, gameVars>>

\* g.cells = nextGeneration, and Reproduce returns.
ReproduceReturn ==
    /\ pc = "Reproduce" /\ rIndex = Len(gen.cells)
    /\ listener # "exited"
    /\ gen' = [gen EXCEPT !.cells = nextGeneration]
    /\ pc' = "idle" /\ op' = "Reproduce" /\ ret' = None
    /\ ticks' = ticks + 1
    /\ UNCHANGED <<prog, listener, lifeVars, snap, game, ui, first, nextGeneration, rIndex, cIndex>>

\* --------------------------------------------- the interrupt goroutine
\* signal.Notify(c, os.Interrupt) is in force and the signal arrives: <-c
\* returns. A process that has panicked is gone.
listenForInterruptReceive ==
    /\ listener = "waiting" /\ pc # "panic"
    /\ listener' = "received"
    /\ UNCHANGED <<prog, pc, lifeVars, snap, op, ret, gameVars, mainVars>>

listenForInterruptClearsScreen ==
    /\ listener = "received" /\ pc # "panic"
    /\ listener' = "exited"
    /\ ui' = Append(ui, ClearScreen)
    /\ UNCHANGED <<prog, pc, lifeVars, snap, op, ret, game, ticks, first, mainVars>>

\* fmt.Println("Exiting...") (cmd/life only, to standard output, not through
\* the UI) and os.Exit(0): the process ends wherever the main goroutine is.
listenForInterruptExit ==
    /\ listener = "received" /\ pc # "panic"
    /\ listener' = "exited"
    /\ UNCHANGED <<prog, pc, lifeVars, snap, op, ret, gameVars, mainVars>>

Init ==
    /\ prog \in {"life", "game", "main"}
    /\ pc = IF prog = "game" THEN "Start" ELSE "idle"
    /\ g1 = Nil /\ g2 = Nil /\ i = 0 /\ g2Cells = <<>> /\ snap = Nil
    /\ op = None /\ ret = None
    /\ IF prog = "game" THEN game \in Games ELSE game = Nil
    /\ ui = <<>> /\ ticks = 0 /\ first = Nil
    /\ gen = Nil /\ nextGeneration = <<>> /\ rIndex = 0 /\ cIndex = 0
    /\ listener = IF prog = "game" THEN "waiting" ELSE "none"

Next ==
    \/ \E dimOpt \in {Nil} \cup Dims :
          \/ \E cellsOpt \in {None, "WithRandomCells"} :
                NewGeneration(dimOpt, cellsOpt, <<>>)
          \/ \E c \in Seeds : NewGeneration(dimOpt, "WithCells", c)
    \/ Generate
    \/ String
    \/ NextCall
    \/ NextStep
    \/ NextReturn
    \/ GameStart
    \/ GameTick
    \/ GameNextReturn
    \/ \E d \in Dims : Awaken(d.Y, d.X)
    \/ \E cell \in {alive, dead}, n \in 0..8 : WillSurvive(cell, [k \in 1..n |-> alive])
    \/ ReproduceCall
    \/ ReproduceStep
    \/ ReproduceReturn
    \/ listenForInterruptReceive
    \/ listenForInterruptExit

Spec == Init /\ [][Next]_vars

\* ------------------------------------------------- what the claims refer to
Valid(d) == d.X >= 1 /\ d.Y >= 1

RowOf(idx, d) == idx \div d.X

ColOf(idx, d) == idx % d.X

\* The in-bounds orthogonal and diagonal neighbours of the cell at idx.
AdjacentIdx(idx, d) ==
    {k \in 0..(d.X * d.Y - 1) :
        /\ k # idx
        /\ Abs(RowOf(k, d) - RowOf(idx, d)) <= 1
        /\ Abs(ColOf(k, d) - ColOf(idx, d)) <= 1}

LiveCount(idx, cells, d) ==
    Cardinality({k \in AdjacentIdx(idx, d) : cells[k + 1]})

\* The rule table: state (alive or not) and live-neighbour count to next state.
RuleTable(a, n) ==
    CASE a /\ n \in {0, 1} -> FALSE
      [] a /\ n \in {2, 3} -> TRUE
      [] a /\ n \in 4..8 -> FALSE
      [] ~a /\ n = 3 -> TRUE
      [] ~a /\ n # 3 -> FALSE

\* The step of the spec on a valid grid.
StepCells(cells, d) ==
    [k \in 1..(d.X * d.Y) |-> RuleTable(cells[k], LiveCount(k - 1, cells, d))]

RECURSIVE StepN(_, _, _)
StepN(cells, d, n) == IF n = 0 THEN cells ELSE StepN(StepCells(cells, d), d, n - 1)

\* The rendering of the spec on a valid grid: per row, the glyphs with one
\* space between them and a newline after the last.
Render(cells, d) ==
    [p \in 1..(2 * d.X * d.Y) |->
        LET row == (p - 1) \div (2 * d.X)
            k == (p - 1) % (2 * d.X)
        IN  IF k = 2 * d.X - 1 THEN "\n"
            ELSE IF k % 2 = 1 THEN " "
            ELSE IF cells[row * d.X + (k \div 2) + 1] THEN "o" ELSE " "]

InvalidDimension == [err |-> "InvalidDimension"]

\* C1: on every valid grid, each cell of the grid Next returns is alive exactly
\* when the rule table says so for the cell's state and the number of living
\* cells among its in-bounds adjacent cells in the input grid.
C1_NextFollowsRuleTable ==
    (prog = "life" /\ op = "Next" /\ Valid(g1.dimensions)) =>
        /\ g2.dimensions = g1.dimensions
        /\ g2.cells = StepCells(g1.cells, g1.dimensions)

\* C2: on every valid grid, step, render and neighbour counting never fail:
\* no call ends in a panic (an index outside the cells).
C2_CoreIsTotal ==
    /\ (prog \in {"life", "game"} /\ g1 # Nil /\ Valid(g1.dimensions)) => pc # "panic"
    /\ (prog = "main" /\ gen # Nil) => pc # "panic"

\* C3: NewGeneration with width <= 0 or height <= 0 fails with InvalidDimension
\* and produces no grid: whatever it returns that is a generation has valid
\* dimensions.
C3_InvalidDimensionRejected ==
    (prog = "life" /\ op = "NewGeneration" /\ g1 # InvalidDimension) =>
        Valid(g1.dimensions)

Exhausted(g) == g.kind = "fixed" /\ g.nextIdx >= Len(g.cells)

\* C4: with WithCells(c) on a valid grid, after construction cell k (row-major)
\* is c[k] while c lasts and dead beyond it; and once c is exhausted every
\* further Generate returns a dead cell (and c stays exhausted).
C4_FixedSeed ==
    /\ [](prog = "life" /\ op = "NewGeneration" /\ g1.generator.kind = "fixed"
          /\ Valid(g1.dimensions) =>
            LET c == g1.generator.cells
                n == g1.dimensions.X * g1.dimensions.Y
            IN  /\ Len(g1.cells) = n
                /\ \A k \in 1..n :
                      g1.cells[k] = IF k <= Len(c) THEN c[k] ELSE FALSE)
    /\ [][(prog = "life" /\ g1 # Nil /\ op' = "Generate") =>
            (Exhausted(g1.generator) =>
                ret' = FALSE /\ Exhausted(g1'.generator))]_vars

\* C4 witness: a seed shorter than the grid, with a living cell, is exhausted
\* and Generate has returned a dead cell.
C4_Witness ==
    /\ prog = "life" /\ op = "Generate" /\ g1.generator.kind = "fixed"
    /\ Len(g1.generator.cells) = 2 /\ g1.generator.cells[2] = TRUE
    /\ g1.dimensions = [X |-> 2, Y |-> 2]
    /\ g1.cells = <<FALSE, TRUE, FALSE, FALSE>>
    /\ Exhausted(g1.generator) /\ ret = FALSE

\* What Next computes for cell k (from 1) from the input generation alone.
NextCellOf(g, k) == generate(k - 1, g.cells[k], g.cells, g.dimensions)

NextOf(g) == [k \in 1..Len(g.cells) |-> NextCellOf(g, k)]

\* What Reproduce computes for the cell at row r, column c (from 1) from the
\* input generation alone.
ReproduceCellOf(g, r, c) ==
    IF willSurvive(g.cells[r][c], findNeighbors(r - 1, c - 1, g.cells, g))
    THEN alive ELSE dead

ReproduceOf(g) ==
    [r \in 1..g.height |-> [c \in 1..g.width |-> ReproduceCellOf(g, r, c)]]

\* While a step runs the generation it reads is as it was when the step was
\* called, and every cell decided so far is the one the input alone gives.
SnapshotWhileStepping ==
    /\ pc = "Next" =>
          /\ g1 = snap
          /\ \A k \in 1..Len(g2Cells) : g2Cells[k] = NextCellOf(snap, k)
    /\ pc = "Reproduce" =>
          /\ gen = snap
          /\ \A r \in 1..Len(nextGeneration) : \A c \in 1..Len(nextGeneration[r]) :
                (r - 1 < rIndex \/ c - 1 < cIndex) =>
                    nextGeneration[r][c] = ReproduceCellOf(snap, r, c)
    /\ (prog = "life" /\ op = "Next") =>
          /\ g1 = snap
          /\ g2.dimensions = snap.dimensions
          /\ g2.cells = NextOf(snap)

\* C5 as stated: for Next and for Reproduce alike, the input generation's
\* cells and dimensions are unchanged when the step returns.
C5_InputUnchangedByStep ==
    /\ SnapshotWhileStepping
    /\ (prog = "main" /\ op = "Reproduce") => gen = snap

\* C5 amended: Next leaves its input generation unchanged; Reproduce leaves
\* the grid it reads unchanged until every cell is decided, and then replaces
\* the receiver's cells by the new grid (height and width unchanged).
C5_SnapshotStep ==
    /\ SnapshotWhileStepping
    /\ (prog = "main" /\ op = "Reproduce") =>
          /\ gen.height = snap.height /\ gen.width = snap.width
          /\ gen.cells = ReproduceOf(snap)

\* C5 witness: Reproduce has returned and the receiver's cells are new.
C5_Witness ==
    /\ prog = "main" /\ op = "Reproduce"
    /\ gen.height = 3 /\ gen.width = 3
    /\ gen.cells # snap.cells

\* C6: on a valid grid String returns one line per row, in row order: the
\* row's glyphs ("o" alive, " " dead) with one space between consecutive
\* glyphs, every line ended by one newline.
C6_StringRendersRows ==
    (prog = "life" /\ op = "String" /\ Valid(g1.dimensions)) =>
        /\ ret = Render(g1.cells, g1.dimensions)
        /\ Cardinality({p \in 1..Len(ret) : ret[p] = "\n"}) = g1.dimensions.Y

\* C6 witness: the 2x2 grid [alive, dead, dead, alive] renders as "o  \n  o\n".
C6_Witness ==
    /\ prog = "life" /\ op = "String"
    /\ g1.dimensions = [X |-> 2, Y |-> 2]
    /\ g1.cells = <<TRUE, FALSE, FALSE, TRUE>>
    /\ ret = <<"o", " ", " ", "\n", " ", " ", "o", "\n">>

\* C7: the rule applied to one cell is the rule table, for both variants:
\* every cell Next has decided is RuleTable of the cell's state and the count
\* generate took, and willSurvive is RuleTable of the cell's state and the
\* length of the neighbours list.
C7_RuleTable ==
    /\ pc = "Next" =>
          \A k \in 1..Len(g2Cells) :
              g2Cells[k] = RuleTable(g1.cells[k],
                                     liveNeighbors(k - 1, g1.cells, g1.dimensions))
    /\ (prog = "main" /\ op = "willSurvive") =>
          ret.ok = RuleTable(ret.cell = alive, Len(ret.neighbors))
    /\ pc = "Reproduce" =>
          \A r \in 1..Len(nextGeneration) : \A c \in 1..Len(nextGeneration[r]) :
              (r - 1 < rIndex \/ c - 1 < cIndex) =>
                  (nextGeneration[r][c] = alive) =
                      RuleTable(gen.cells[r][c] = alive,
                                Len(findNeighbors(r - 1, c - 1, gen.cells, gen)))

\* C7 witness: in a 3x3 grid of living cells Next has decided the centre cell,
\* which has 8 living neighbours and dies.
C7_Witness ==
    /\ prog = "life" /\ pc = "Next"
    /\ g1.dimensions = [X |-> 3, Y |-> 3]
    /\ \A k \in 1..9 : g1.cells[k]
    /\ Len(g2Cells) = 5 /\ g2Cells[5] = FALSE
    /\ liveNeighbors(4, g1.cells, g1.dimensions) = 8

\* C8: for X >= 1, Y >= 1 and every index of the grid, LeftEdge is true
\* exactly in the first column and RightEdge exactly in the last column.
C8_EdgesAreColumns ==
    (prog \in {"life", "game"} /\ g1 # Nil /\ Valid(g1.dimensions)) =>
        \A idx \in 0..(g1.dimensions.X * g1.dimensions.Y - 1) :
            /\ LeftEdge(g1.dimensions, idx) = (ColOf(idx, g1.dimensions) = 0)
            /\ RightEdge(g1.dimensions, idx) =
                  (ColOf(idx, g1.dimensions) = g1.dimensions.X - 1)

\* The most positions a cell at (row, col) of an N x N grid has around it.
MaxAround(row, col, n) ==
    LET onRowEdge == row \in {0, n - 1}
        onColEdge == col \in {0, n - 1}
    IN  IF onRowEdge /\ onColEdge THEN 3
        ELSE IF onRowEdge \/ onColEdge THEN 5
        ELSE 8

\* C9: in an N x N grid, N >= 2, the positions the step examines for the cell
\* it is at (the one it decides next, or has just decided) are in bounds and
\* adjacent to it, each examined once: at most 3 for a corner, 5 for an edge
\* cell, 8 for an interior cell, and the live count is no more.
C9_NeighboursInBounds ==
    /\ (prog \in {"life", "game"} /\ pc \in {"Next", "panic"}
        /\ g1.dimensions.X >= 2 /\ g1.dimensions.Y = g1.dimensions.X) =>
          \A idx \in {i - 1, i} \cap (0..(Len(g1.cells) - 1)) :
              LET d == g1.dimensions
                  reads == neighborIdx(idx, d)
              IN  /\ \A k \in 1..Len(reads) : reads[k] \in AdjacentIdx(idx, d)
                  /\ \A k, l \in 1..Len(reads) : reads[k] = reads[l] => k = l
                  /\ Len(reads) <= MaxAround(RowOf(idx, d), ColOf(idx, d), d.X)
                  /\ liveNeighbors(idx, g1.cells, d) <= Len(reads)
    /\ (prog = "main" /\ pc = "Reproduce"
        /\ gen.height >= 2 /\ gen.width = gen.height) =>
          \A r \in {rIndex} \cap (0..(gen.height - 1)) :
          \A c \in {cIndex - 1, cIndex} \cap (0..(gen.width - 1)) :
              LET pos == findNeighborsPos(r, c, gen)
              IN  /\ \A k \in 1..Len(pos) :
                        /\ pos[k][1] \in 0..(gen.height - 1)
                        /\ pos[k][2] \in 0..(gen.width - 1)
                        /\ pos[k] # <<r, c>>
                        /\ Abs(pos[k][1] - r) <= 1 /\ Abs(pos[k][2] - c) <= 1
                  /\ \A k, l \in 1..Len(pos) : pos[k] = pos[l] => k = l
                  /\ Len(pos) <= MaxAround(r, c, gen.height)
                  /\ Len(findNeighbors(r, c, gen.cells, gen)) <= Len(pos)

\* C9 witness: in a 3x3 grid of living cells Next has visited every cell: a
\* corner counted 3, an edge cell 5, the centre 8.
C9_Witness ==
    /\ prog = "life" /\ pc = "Next" /\ i = 9
    /\ g1.dimensions = [X |-> 3, Y |-> 3]
    /\ \A k \in 1..9 : g1.cells[k]
    /\ liveNeighbors(0, g1.cells, g1.dimensions) = 3
    /\ liveNeighbors(1, g1.cells, g1.dimensions) = 5
    /\ liveNeighbors(4, g1.cells, g1.dimensions) = 8
    /\ Len(neighborIdx(8, g1.dimensions)) = 3

\* What the UI has received when n steps have been rendered after the first
\* frame: for each k <= n a clear-screen, then the rendering of the first
\* generation advanced by k steps.
RECURSIVE FramesUpTo(_, _, _)
FramesUpTo(cells, d, n) ==
    IF n < 0 THEN <<>>
    ELSE FramesUpTo(cells, d, n - 1)
         \o <<ClearScreen, Write(Render(StepN(cells, d, n), d))>>

\* On a board of valid size the frames are the successive generations.
FramesAreGenerations ==
    (prog = "game" /\ Valid(game.dimension)) =>
        /\ pc = "Start" => ui = <<>>
        /\ pc = "tick" => ui = FramesUpTo(first.cells, first.dimensions, ticks)
        /\ pc = "Next" => ui = FramesUpTo(first.cells, first.dimensions, ticks - 1)

\* C10: in Game.Start the n-th frame written is the rendering of the first
\* generation advanced by n steps, each write right after one clear-screen,
\* one step per tick, and the loop never ends on its own.
C10_DriverLoop ==
    /\ prog = "game" => pc # "panic"
    /\ FramesAreGenerations

\* C11 as stated: the interrupt listener ends the process only between steps,
\* never while Next or Reproduce is in progress.
C11_ExitOnlyBetweenSteps ==
    listener = "exited" => pc \notin {"Next", "Reproduce"}

\* C11 amended: the listener ends the process wherever the driver loop is when
\* the interrupt comes, a step in progress included; its own steps leave the
\* main goroutine's position, the grid and the UI as they are, and once the
\* process has exited nothing changes any more.
C11_ExitAtAnyPoint ==
    [][/\ (listener \in {"waiting", "received"} /\ listener' # listener) =>
              UNCHANGED <<pc, lifeVars, mainVars, ui>>
       /\ listener = "exited" => UNCHANGED vars]_vars

\* C11 witness: the process has exited while Next was part-way through a
\* valid grid in Game.Start.
C11_Witness ==
    /\ prog = "game" /\ listener = "exited" /\ pc = "Next"
    /\ Valid(g1.dimensions)
    /\ 0 < i /\ i < Len(g1.cells)

====
